---- MODULE Spec2Model ----
(***************************************************************************)
(* Audio-Visualizer: the useAudioManager hook (beat detection and the      *)
(* analysis loop) and the VisualizerCanvas component (mode transitions and *)
(* the render loop), as state machines.                                    *)
(*                                                                         *)
(* Numbers.  JavaScript numbers are IEEE doubles.  A bass energy is the    *)
(* quotient bassSum / bassRange; it is kept here as an exact fraction      *)
(* [num, den] in lowest terms, and den = 0 stands for NaN (the only        *)
(* division by zero the code can make is 0 / 0).  Comparisons are made on  *)
(* the exact fractions.  Times are milliseconds.  The transition progress  *)
(* is kept in hundredths (0.05 is 5, 1 is 100); twenty additions of 0.05   *)
(* give 1.0000000000000002 in doubles, which is >= 1 like 100 >= 100 here. *)
(***************************************************************************)
EXTENDS Integers, Sequences, FiniteSets, TLC

(***************************************************************************)
(* Bounds of the model.                                                    *)
(***************************************************************************)
\* detectBeat calls explored per behaviour (more than the history keeps)
MaxCalls == 22
\* frame callbacks requested at one time
MaxRequested == 2
\* Date.now() when the hook is mounted; lastBeatTimeRef starts at 0, far in its past
StartTime == 1000

\* the frames that may come while React has a pass or its effects to run, per pass
MaxFramesPerPass == 1

(***************************************************************************)
(* Program constants.                                                      *)
(***************************************************************************)
\* "Keep last 20 samples"
historyCap == 20
\* "Need some history"
minHistory == 10
\* "Minimum 200ms between beats"
minBeatGap == 200
\* largest value of a Uint8Array entry; bassEnergy is returned divided by it
byteMax == 255

VARIABLES
    bufferLength,     \* analyserRef.current.frequencyBinCount of the session
    beatHistoryRef,   \* beatHistoryRef.current: the bass energies kept
    lastBeatTimeRef,  \* lastBeatTimeRef.current
    now,              \* the clock Date.now() reads
    lastCall,         \* the latest detectBeat call: its input, the refs before it, its result
    pushed,           \* every bass energy detectBeat has computed so far, in call order
    results,          \* beatDetected of every detectBeat call so far, in call order
    lastTrueAt,       \* Date.now() of the latest call that returned beatDetected (-1: none)
    stepped,          \* whether the input signal has changed its bass level yet
    delayed,          \* whether a call has come late (after more than the beat gap) yet
    \* the rest of useAudioManager
    isPlaying,        \* state.isPlaying
    isLoading,        \* state.isLoading
    audioData,        \* state.audioData
    analyserRef,      \* whether analyserRef.current is set
    audioElementRef,  \* whether audioElementRef.current is set
    elementPlaying,   \* whether the element of audioElementRef is playing (not paused, not ended)
    animationFrameRef,\* animationFrameRef.current: 0 for null, else a request id
    requested,        \* the frame callbacks requested and neither run nor cancelled
    micPending,       \* a startMicrophone waiting for getUserMedia, with the isPlaying it captured
    loadPending,      \* a loadAudioFile waiting for canplaythrough
    volume,           \* state.volume, in hundredths
    gainNodeRef,      \* gainNodeRef.current: -1 for null, else its gain.value in hundredths
    \* App, as far as VisualizerCanvas reads it
    visualizerMode,   \* App's visualizerMode: the mode requested last
    canvasSize,       \* App's canvasSize
    audioDataFresh,   \* whether the hook has published an audioData the canvas has not rendered with
    \* VisualizerCanvas
    mounted,          \* whether App renders the canvas (audioData was not null at its last render)
    mode,             \* the mode prop of the latest render of the canvas
    size,             \* the width and height props of the latest render of the canvas
    previousMode,     \* the previousMode state
    isTransitioning,  \* the isTransitioning state
    transitionProgress, \* the transitionProgress state, in hundredths
    updateQueue,      \* the state updates dispatched and not rendered yet
    effectsPending,   \* the effects the latest commit has left to run
    canvasFrameRef,   \* the canvas's animationFrameRef.current: 0 for null, else a request id
    requestedRender,  \* the render callbacks requested and neither run nor cancelled
    spectrogramDataRef, \* spectrogramDataRef.current: <<>> for null, else the size of the image kept
    lastRender,       \* what the latest run of render drew
    framesSincePass,  \* the render callbacks run since the effects last ran
    outgoingMode,     \* the mode on display when the mode effect last started a transition
    transitionStart,  \* whether the mode effect has dispatched the start of a transition, whether
                      \* the latest pass has taken it, and whether it overrode a blend; "dropped"
                      \* since a pass took a start together with a setIsTransitioning(false)
                      \* made in its render phase, which left isTransitioning false
    blendTicks,       \* the runs of render that blended since the mode effect last started a
                      \* transition
    spectrogramImage, \* the pixels of spectrogramDataRef.current where they are followed: <<>>
                      \* for null, else the image's width, height and data
    lastSample,       \* the latest read of frequencyData a draw algorithm made: the algorithm,
                      \* the buffer's length, the canvas's height, the loop counter, the index
    audioStopped,     \* the audio was stopped or its track ended, and has not been started since
    lastAdvance       \* the latest call of drawSpectrogram whose pixels are followed: the image
                      \* it found, its frequencyData, the canvas's size, whether it put an image
                      \* on the canvas, and how many calls there have been

beatVars == <<bufferLength, beatHistoryRef, lastBeatTimeRef, now, lastCall, pushed, results,
              lastTrueAt, stepped, delayed>>

hookVars == <<isPlaying, isLoading, audioData, analyserRef, audioElementRef, elementPlaying,
              animationFrameRef, requested, micPending, loadPending>>

canvasVars == <<visualizerMode, canvasSize, audioDataFresh, mounted, mode, size, previousMode,
                isTransitioning, transitionProgress, updateQueue, effectsPending,
                canvasFrameRef, requestedRender, spectrogramDataRef, lastRender,
                framesSincePass, outgoingMode, transitionStart, blendTicks,
                spectrogramImage, lastAdvance, audioStopped, lastSample>>

pixelVars == <<spectrogramImage, lastAdvance>>

volumeVars == <<volume, gainNodeRef>>

vars == <<beatVars, hookVars, canvasVars, volumeVars>>

(***************************************************************************)
(* Fractions: bassSum / bassRange and what detectBeat computes from it.    *)
(***************************************************************************)
RECURSIVE GCD(_, _)
GCD(a, b) == IF b = 0 THEN a ELSE GCD(b, a % b)

Abs(x) == IF x < 0 THEN -x ELSE x

NaN == [num |-> 0, den |-> 0]

IsNaN(q) == q.den = 0

\* n / d as JavaScript divides two non-negative numbers, 0 / 0 being NaN
Div(n, d) ==
    IF d = 0 THEN NaN
    ELSE LET g == GCD(Abs(n), d) IN [num |-> n \div g, den |-> d \div g]

FromInt(n) == [num |-> n, den |-> 1]

Plus(p, q) ==
    IF IsNaN(p) \/ IsNaN(q) THEN NaN
    ELSE Div(p.num * q.den + q.num * p.den, p.den * q.den)

\* q / k for an integer k >= 0
Over(q, k) == IF IsNaN(q) THEN NaN ELSE Div(q.num, q.den * k)

\* q * 1.5
TimesOneAndHalf(q) == IF IsNaN(q) THEN NaN ELSE Div(q.num * 3, q.den * 2)

\* p >= q, where the code compares with >
NotLess(p, q) == ~IsNaN(p) /\ ~IsNaN(q) /\ p.num * q.den >= q.num * p.den

\* p > q; every comparison with NaN is false
Greater(p, q) == ~IsNaN(p) /\ ~IsNaN(q) /\ p.num * q.den > q.num * p.den

\* 0 <= q <= 1, false of NaN
InUnitInterval(q) == ~IsNaN(q) /\ q.num >= 0 /\ q.num <= q.den

(***************************************************************************)
(* A Uint8Array is kept as [length, bass, rest]: the byte bass in every    *)
(* entry of its first tenth and the byte rest in every other entry.        *)
(***************************************************************************)
MkFrame(n, bass, rest) == [length |-> n, bass |-> bass, rest |-> rest]

\* frequencyData.length
Length(frequencyData) == frequencyData.length

\* frequencyData[i], for i in 0 .. length - 1
ByteAt(frequencyData, i) ==
    IF (i + 1) * 10 <= frequencyData.length THEN frequencyData.bass ELSE frequencyData.rest

RECURSIVE SumRange(_, _, _)
\* frequencyData[lo] + ... + frequencyData[hi], summed by halves to keep the evaluation shallow
SumRange(frequencyData, lo, hi) ==
    IF lo > hi THEN 0
    ELSE IF lo = hi THEN ByteAt(frequencyData, lo)
    ELSE LET mid == (lo + hi) \div 2
         IN  SumRange(frequencyData, lo, mid) + SumRange(frequencyData, mid + 1, hi)

\* the loop for (i = 0; i < k; i++) bassSum += frequencyData[i]
SumBytes(frequencyData, k) == SumRange(frequencyData, 0, k - 1)

RECURSIVE SumOf(_)
\* reduce((sum, val) => sum + val, 0)
SumOf(h) == IF h = <<>> THEN FromInt(0) ELSE Plus(h[1], SumOf(Tail(h)))

(***************************************************************************)
(* detectBeat                                                              *)
(***************************************************************************)
BassRangeHundredth(length) == length \div 100

\* Math.floor(frequencyData.length * 0.1); in doubles this is length div 10
\* for every length below 2^31
BassRange(length) == length \div 10

WholeBufferEnergy(frequencyData) ==
    Div(SumBytes(frequencyData, Length(frequencyData)), Length(frequencyData))

\* bassSum / bassRange over the first bassRange entries
BassEnergy(frequencyData) ==
    LET bassRange == BassRange(Length(frequencyData))
    IN  Div(SumBytes(frequencyData, bassRange), bassRange)

PushNoEvict(history, bassEnergy) == Append(history, bassEnergy)

PushEvictNewest(history, bassEnergy) ==
    IF Len(history) >= historyCap THEN history ELSE Append(history, bassEnergy)

\* push, then shift when more than 20 are kept
PushHistory(history, bassEnergy) ==
    LET h == Append(history, bassEnergy)
    IN  IF Len(h) > historyCap THEN Tail(h) ELSE h

AvgBeforePush(history) ==
    LET before == SubSeq(history, 1, Len(history) - 1)
    IN  Over(SumOf(before), Len(before))

\* the average over the history as it is after the push
AvgBassEnergy(history) == Over(SumOf(history), Len(history))

ThresholdIsAverage(avgBassEnergy) == avgBassEnergy

\* avgBassEnergy * 1.5
BeatThreshold(avgBassEnergy) == TimesOneAndHalf(avgBassEnergy)

GapAtLeast(timeSinceLastBeat) == timeSinceLastBeat >= minBeatGap

\* timeSinceLastBeat > 200
GapOk(timeSinceLastBeat) == timeSinceLastBeat > minBeatGap

NoWarmUp(history) == TRUE

EnoughHistoryStrict(history) == Len(history) > minHistory

\* beatHistoryRef.current.length >= 10
EnoughHistory(history) == Len(history) >= minHistory

BeatTimeNeverWritten(beatDetected, currentTime, lastBeat) == lastBeat

\* the write made on every call, whatever beatDetected is
BeatTimeAlwaysWritten(beatDetected, currentTime, lastBeat) == currentTime

\* if (beatDetected) lastBeatTimeRef.current = currentTime
NextBeatTime(beatDetected, currentTime, lastBeat) ==
    IF beatDetected THEN currentTime ELSE lastBeat

\* One call of detectBeat on frequencyData with the refs as given and
\* Date.now() = currentTime: what it returns and what it leaves in the refs.
detectBeat(frequencyData, history, lastBeat, currentTime) ==
    LET bassEnergy == BassEnergy(frequencyData)
        newHistory == PushHistory(history, bassEnergy)
        avgBassEnergy == AvgBassEnergy(newHistory)
        beatThreshold == BeatThreshold(avgBassEnergy)
        timeSinceLastBeat == currentTime - lastBeat
        beatDetected == /\ Greater(bassEnergy, beatThreshold)
                        /\ GapOk(timeSinceLastBeat)
                        /\ EnoughHistory(newHistory)
    IN  [beatDetected |-> beatDetected,
         bassEnergy |-> Over(bassEnergy, byteMax),
         raw |-> bassEnergy,
         history |-> newHistory,
         lastBeat |-> NextBeatTime(beatDetected, currentTime, lastBeat)]

(***************************************************************************)
(* The inputs of detectBeat: frequency buffers and the time between calls. *)
(***************************************************************************)
\* buffer lengths tried: below ten entries, exactly ten, and more
BufferLengths == {1, 9, 10, 20}

\* byte values a buffer's bass range takes
Levels == {0, 10, 14, 16, 20, 31, 255}

\* milliseconds between two consecutive calls: two short ones make exactly 200;
\* one call of a behaviour may come late
Delays == {100, 201}

DelaysNow == IF delayed THEN {d \in Delays : d <= minBeatGap} ELSE Delays

Frames(n) == {MkFrame(n, b, 0) : b \in Levels} \cup {MkFrame(n, byteMax, byteMax)}

\* the byte in the first tenth of a frame (0 when it has none)
LevelOf(frame) == IF frame.length >= 10 THEN frame.bass ELSE 0

\* the signal is steady and changes its bass level at most once
SteadyOrFirstStep(frame) ==
    \/ ~lastCall.called
    \/ ~stepped
    \/ LevelOf(frame) = LevelOf(lastCall.frame)

NoCall ==
    [called |-> FALSE, frame |-> MkFrame(0, 0, 0), historyBefore |-> <<>>, lastBeatBefore |-> 0,
     lastTrueBefore |-> -1, currentTime |-> 0, raw |-> NaN, beatDetected |-> FALSE,
     bassEnergy |-> NaN]

BeatInit ==
    /\ beatHistoryRef = <<>>
    /\ lastBeatTimeRef = 0
    /\ now = StartTime
    /\ lastCall = NoCall
    /\ pushed = <<>>
    /\ results = <<>>
    /\ lastTrueAt = -1
    /\ stepped = FALSE
    /\ delayed = FALSE

\* detectBeat(frame) called when the clock reads currentTime
Detect(frame, currentTime) ==
    \E r \in {detectBeat(frame, beatHistoryRef, lastBeatTimeRef, currentTime)} :
        /\ beatHistoryRef' = r.history
        /\ lastBeatTimeRef' = r.lastBeat
        /\ now' = currentTime
        /\ lastCall' = [called |-> TRUE, frame |-> frame,
                        historyBefore |-> beatHistoryRef, lastBeatBefore |-> lastBeatTimeRef,
                        lastTrueBefore |-> lastTrueAt, currentTime |-> currentTime,
                        raw |-> r.raw, beatDetected |-> r.beatDetected,
                        bassEnergy |-> r.bassEnergy]
        /\ pushed' = Append(pushed, r.raw)
        /\ results' = Append(results, r.beatDetected)
        /\ lastTrueAt' = IF r.beatDetected THEN currentTime ELSE lastTrueAt
        /\ delayed' = (delayed \/ currentTime - now > minBeatGap)
        /\ stepped' = (stepped \/ (lastCall.called /\ LevelOf(frame) # LevelOf(lastCall.frame)))

\* one call of detectBeat on the next buffer of the signal
DetectCall ==
    /\ Len(pushed) < MaxCalls
    /\ \E frame \in Frames(bufferLength), dt \in DelaysNow :
          /\ SteadyOrFirstStep(frame)
          /\ Detect(frame, now + dt)
    /\ UNCHANGED <<bufferLength, hookVars, canvasVars, volumeVars>>

(***************************************************************************)
(* useAudioManager: the analysis loop and the operations that drive it.    *)
(*                                                                         *)
(* A callback made by useCallback reads the state of the render that made  *)
(* it.  updateAudioData reads state.isPlaying; togglePlayback and          *)
(* startMicrophone call the updateAudioData of their own render.  React    *)
(* re-renders before the next user event, so an operation called from the  *)
(* page reads the current isPlaying; a frame callback and the part of      *)
(* startMicrophone after its await keep the isPlaying they were made with. *)
(* The control panel disables its buttons while isLoading; the Space key   *)
(* calls togglePlayback whatever isLoading is.                             *)
(***************************************************************************)
\* analyserRef.current.fftSize
fftSize == 2048

\* AnalyserNode.frequencyBinCount: half the fftSize
frequencyBinCount == fftSize \div 2

\* the buffers getByteFrequencyData fills: silence, or a full bass range; the first
\* buffer of a session, read as playback starts, is silent
HookFrames == {MkFrame(frequencyBinCount, 0, 0), MkFrame(frequencyBinCount, byteMax, 0)}

\* milliseconds between two runs of updateAudioData
HookDelays == {100}

NoAudioData == [present |-> FALSE, frame |-> MkFrame(0, 0, 0), beatDetected |-> FALSE, bassEnergy |-> NaN]

NoMic == [waiting |-> FALSE, isPlaying |-> FALSE]

\* useState({..., volume: 1}), in hundredths
initialVolume == 100

\* the volumes setVolume is called with, in hundredths: the slider's and the keys' values,
\* and values outside [0, 1]
VolumeInputs == {-50, 0, 50, 100, 150}

HookInit ==
    /\ isPlaying = FALSE
    /\ isLoading = FALSE
    /\ audioData = NoAudioData
    /\ analyserRef = FALSE
    /\ audioElementRef = FALSE
    /\ elementPlaying = FALSE
    /\ animationFrameRef = 0
    /\ requested = {}
    /\ micPending = NoMic
    /\ loadPending = FALSE
    /\ volume = initialVolume
    /\ gainNodeRef = -1

\* if (animationFrameRef.current) cancelAnimationFrame(animationFrameRef.current)
CancelFrame(callbacks) == {f \in callbacks : animationFrameRef = 0 \/ f.id # animationFrameRef}

\* The id requestAnimationFrame returns.  The browser counts its requests; the code only
\* compares an id with animationFrameRef.current, so any id that no requested callback has
\* and that animationFrameRef does not hold stands for the next one: the least such is taken.
FreshId(callbacks) ==
    CHOOSE i \in 1..(Cardinality(callbacks) + 2) :
        /\ i # animationFrameRef
        /\ \A f \in callbacks : f.id # i
        /\ \A j \in 1..(i - 1) : j = animationFrameRef \/ \E f \in callbacks : f.id = j

\* requestAnimationFrame is called only by an updateAudioData that read isPlaying = true
SchedulesNext(closureIsPlaying) == closureIsPlaying

SchedulesAlways(closureIsPlaying) == TRUE

\* updateAudioData as made by a render whose state.isPlaying was closureIsPlaying,
\* run when callbacks are the frame callbacks still requested
updateAudioData(closureIsPlaying, callbacks) ==
    IF ~analyserRef
    THEN /\ requested' = callbacks
         /\ UNCHANGED <<beatHistoryRef, lastBeatTimeRef, now, lastCall, pushed, results,
                        lastTrueAt, stepped, delayed, audioData, animationFrameRef>>
    ELSE /\ Len(pushed) < MaxCalls
         /\ \E frame \in HookFrames, dt \in HookDelays :
               /\ lastCall.called \/ LevelOf(frame) = 0
               /\ SteadyOrFirstStep(frame)
               /\ Detect(frame, now + dt)
               /\ audioData' = [present |-> TRUE, frame |-> frame,
                                beatDetected |-> lastCall'.beatDetected,
                                bassEnergy |-> lastCall'.bassEnergy]
         /\ IF SchedulesNext(closureIsPlaying)
            THEN /\ Cardinality(callbacks) < MaxRequested
                 /\ animationFrameRef' = FreshId(callbacks)
                 /\ requested' = callbacks \cup {[id |-> FreshId(callbacks),
                                                   isPlaying |-> closureIsPlaying]}
            ELSE /\ requested' = callbacks
                 /\ UNCHANGED animationFrameRef

\* initializeAudioContext creates the gain node if there is none:
\*   gainNodeRef.current.gain.value = state.volume
\* the callback is made once (dependencies []), by the first render of the hook, and the
\* state it reads is that render's
initializeAudioContext ==
    /\ analyserRef' = TRUE
    /\ gainNodeRef' = IF gainNodeRef = -1 THEN initialVolume ELSE gainNodeRef

\* loadAudioFile up to its wait for canplaythrough
LoadAudioFile ==
    /\ ~isLoading
    /\ isLoading' = TRUE
    /\ initializeAudioContext
    /\ audioElementRef' = TRUE
    /\ elementPlaying' = FALSE
    /\ loadPending' = TRUE
    /\ UNCHANGED <<beatVars, isPlaying, audioData, animationFrameRef, requested, micPending>>
    /\ UNCHANGED <<canvasVars, volume>>

\* canplaythrough or error: loadAudioFile ends
LoadSettled ==
    /\ loadPending
    /\ loadPending' = FALSE
    /\ isLoading' = FALSE
    /\ UNCHANGED <<beatVars, isPlaying, audioData, analyserRef, audioElementRef, elementPlaying,
                   animationFrameRef, requested, micPending>>
    /\ UNCHANGED <<canvasVars, volumeVars>>

\* startMicrophone up to its wait for getUserMedia
StartMicrophone ==
    /\ ~isLoading
    /\ isLoading' = TRUE
    /\ initializeAudioContext
    /\ micPending' = [waiting |-> TRUE, isPlaying |-> isPlaying]
    /\ UNCHANGED <<beatVars, isPlaying, audioData, audioElementRef, elementPlaying,
                   animationFrameRef, requested, loadPending>>
    /\ UNCHANGED <<canvasVars, volume>>

\* getUserMedia resolves: the rest of startMicrophone
MicrophoneGranted ==
    /\ micPending.waiting
    /\ micPending' = NoMic
    /\ elementPlaying' = FALSE
    /\ isLoading' = FALSE
    /\ isPlaying' = TRUE
    /\ updateAudioData(micPending.isPlaying, requested)
    /\ UNCHANGED <<bufferLength, analyserRef, audioElementRef, loadPending>>
    /\ UNCHANGED <<canvasVars, volumeVars>>

\* getUserMedia rejects: the catch of startMicrophone
MicrophoneDenied ==
    /\ micPending.waiting
    /\ micPending' = NoMic
    /\ isLoading' = FALSE
    /\ UNCHANGED <<beatVars, isPlaying, audioData, analyserRef, audioElementRef, elementPlaying,
                   animationFrameRef, requested, loadPending>>
    /\ UNCHANGED <<canvasVars, volumeVars>>

\* togglePlayback while playing: pause
Pause ==
    /\ audioElementRef
    /\ isPlaying
    /\ elementPlaying' = FALSE
    /\ isPlaying' = FALSE
    /\ requested' = CancelFrame(requested)
    /\ UNCHANGED <<beatVars, isLoading, audioData, analyserRef, audioElementRef,
                   animationFrameRef, micPending, loadPending>>
    /\ UNCHANGED <<canvasVars, volumeVars>>

\* togglePlayback while not playing: play
Play ==
    /\ audioElementRef
    /\ ~isPlaying
    /\ elementPlaying' = TRUE
    /\ isPlaying' = TRUE
    /\ updateAudioData(isPlaying, requested)
    /\ UNCHANGED <<bufferLength, isLoading, analyserRef, audioElementRef,
                   micPending, loadPending>>
    /\ UNCHANGED <<canvasVars, volumeVars>>

togglePlayback == Pause \/ Play

stopAudio ==
    /\ ~isLoading
    /\ elementPlaying' = FALSE
    /\ requested' = CancelFrame(requested)
    /\ isPlaying' = FALSE
    /\ UNCHANGED <<beatVars, isLoading, audioData, analyserRef, audioElementRef,
                   animationFrameRef, micPending, loadPending>>
    /\ UNCHANGED <<canvasVars, volumeVars>>

\* the 'ended' listener of the element of audioElementRef (an element that a later
\* loadAudioFile replaced is taken not to reach its end)
Ended ==
    /\ elementPlaying
    /\ elementPlaying' = FALSE
    /\ isPlaying' = FALSE
    /\ requested' = CancelFrame(requested)
    /\ UNCHANGED <<beatVars, isLoading, audioData, analyserRef, audioElementRef,
                   animationFrameRef, micPending, loadPending>>
    /\ UNCHANGED <<canvasVars, volumeVars>>

\* the browser runs a requested frame callback
FrameCallback ==
    \E f \in requested :
        /\ updateAudioData(f.isPlaying, requested \ {f})
        /\ UNCHANGED <<bufferLength, isPlaying, isLoading, analyserRef, audioElementRef,
                       elementPlaying, micPending, loadPending, canvasVars, volumeVars>>

\* Math.max(0, Math.min(1, volume))
clampedVolume(v) == IF v < 0 THEN 0 ELSE IF v > 100 THEN 100 ELSE v

\* setVolume(v), from the slider or from a key (the volume of the audio element, which
\* it writes too, is not followed)
setVolume ==
    \E v \in VolumeInputs :
        /\ volume' = clampedVolume(v)
        /\ gainNodeRef' = IF gainNodeRef = -1 THEN gainNodeRef ELSE clampedVolume(v)
        /\ UNCHANGED <<beatVars, hookVars, canvasVars>>

(*                                                                         *)
(* App renders the canvas once audioData is not null; the hook never sets  *)
(* audioData back to null, so the canvas stays.  A render pass of React    *)
(* takes the props App holds and the state updates dispatched so far; the  *)
(* effects whose dependencies changed run after it and before the next     *)
(* pass.  A key press, a resize, a new audioData and a frame callback may  *)
(* come between a dispatch and the pass, and between the pass and its      *)
(* effects.  render reads the props and the state of the pass that made    *)
(* it; transitionProgress and opacities are counted in hundredths.         *)
(***************************************************************************)
\* the modes the page asks for (VisualizerMode has two more, drawn the same way as bars)
RequestedModes == {"bars", "waveform", "spectrogram"}

\* App's canvasSize: its initial value, and one set by handleResize
CanvasSizes == {<<800, 400>>, <<400, 300>>}

\* transitionProgress 1
fullProgress == 100

\* prev + 0.05
progressStep == 5

NoUpdates == [isTransitioning |-> "none", transitionProgress |-> -1, previousMode |-> "none",
              renderPhase |-> FALSE]

\* overlay: the run painted the fade overlay, fillRect in rgba(15, 23, 42, 0.1)
NoRender == [ran |-> FALSE, blend |-> FALSE, draws |-> <<>>, overlay |-> FALSE]

CanvasInit ==
    /\ visualizerMode = "bars"
    /\ canvasSize = <<800, 400>>
    /\ audioDataFresh = FALSE
    /\ mounted = FALSE
    /\ mode = "bars"
    /\ size = <<800, 400>>
    /\ previousMode = "bars"
    /\ isTransitioning = FALSE
    /\ transitionProgress = 0
    /\ updateQueue = NoUpdates
    /\ effectsPending = {}
    /\ canvasFrameRef = 0
    /\ requestedRender = {}
    /\ spectrogramDataRef = <<>>
    /\ lastRender = NoRender
    /\ framesSincePass = 0
    /\ blendTicks = 0
    /\ audioStopped = FALSE
    /\ outgoingMode = "bars"
    /\ transitionStart = "none"

\* the props and state a render function reads: those of the pass that made it
Closure == [mode |-> mode, previousMode |-> previousMode, isTransitioning |-> isTransitioning,
            transitionProgress |-> transitionProgress]

\* the cleanup of the animation effect leaving the requested frame in place
CancelRenderSkipped(callbacks) == callbacks

\* if (animationFrameRef.current) cancelAnimationFrame(animationFrameRef.current)
CancelRender(callbacks) == {f \in callbacks : canvasFrameRef = 0 \/ f.id # canvasFrameRef}

\* the id requestAnimationFrame returns, taken as in FreshId
FreshRenderId(callbacks) ==
    CHOOSE i \in 1..(Cardinality(callbacks) + 2) :
        /\ i # canvasFrameRef
        /\ \A f \in callbacks : f.id # i
        /\ \A j \in 1..(i - 1) : j = canvasFrameRef \/ \E f \in callbacks : f.id = j

\* setIsTransitioning(true); setTransitionProgress(0); setPreviousMode(mode)
StartTransition(queue, newMode) ==
    [queue EXCEPT !.isTransitioning = "true", !.transitionProgress = 0,
                  !.previousMode = newMode]

\* the updater without its clamp: return newProgress where the code returns 1
AdvanceUnclamped(queue, committed) ==
    LET prev == IF queue.transitionProgress = -1 THEN committed ELSE queue.transitionProgress
        newProgress == prev + progressStep
    IN  IF newProgress >= fullProgress
        THEN IF queue = NoUpdates
             THEN [queue EXCEPT !.transitionProgress = newProgress, !.isTransitioning = "false"]
             ELSE [queue EXCEPT !.transitionProgress = newProgress, !.renderPhase = TRUE]
        ELSE [queue EXCEPT !.transitionProgress = newProgress]

\* the updater adding two steps: prev + 0.1
AdvanceTwoSteps(queue, committed) ==
    LET prev == IF queue.transitionProgress = -1 THEN committed ELSE queue.transitionProgress
        newProgress == prev + 2 * progressStep
    IN  IF newProgress >= fullProgress
        THEN IF queue = NoUpdates
             THEN [queue EXCEPT !.transitionProgress = fullProgress, !.isTransitioning = "false"]
             ELSE [queue EXCEPT !.transitionProgress = fullProgress, !.renderPhase = TRUE]
        ELSE [queue EXCEPT !.transitionProgress = newProgress]

\* setTransitionProgress(prev => ...).  React runs the updater at once when the component
\* has no update waiting, and the setIsTransitioning(false) inside it is then an update like
\* any other; otherwise the updater runs in the next render pass, on the progress the
\* queued updates leave, and its setIsTransitioning(false) is applied after the queued ones.
AdvanceProgress(queue, committed) ==
    LET prev == IF queue.transitionProgress = -1 THEN committed ELSE queue.transitionProgress
        newProgress == prev + progressStep
    IN  IF newProgress >= fullProgress
        THEN IF queue = NoUpdates
             THEN [queue EXCEPT !.transitionProgress = fullProgress, !.isTransitioning = "false"]
             ELSE [queue EXCEPT !.transitionProgress = fullProgress, !.renderPhase = TRUE]
        ELSE [queue EXCEPT !.transitionProgress = newProgress]

\* the state a render pass computes from the queued updates
NextIsTransitioning ==
    IF updateQueue.renderPhase THEN FALSE
    ELSE IF updateQueue.isTransitioning = "none" THEN isTransitioning
    ELSE updateQueue.isTransitioning = "true"

NextTransitionProgress ==
    IF updateQueue.transitionProgress = -1 THEN transitionProgress
    ELSE updateQueue.transitionProgress

NextPreviousMode ==
    IF updateQueue.previousMode = "none" THEN previousMode ELSE updateQueue.previousMode

\* isTransitioning && transitionProgress < 1
Blending(c) == c.isTransitioning /\ c.transitionProgress < fullProgress

\* renderMode(ctx, renderMode, audioData, opacity): one draw algorithm at one opacity
renderMode(drawn, opacity) == [mode |-> drawn, opacity |-> opacity]

\* Draws with the blend decided by transitionProgress < 1 alone
DrawsWheneverBelowFull(c) ==
    IF c.transitionProgress < fullProgress
    THEN (IF fullProgress - c.transitionProgress > 0
          THEN <<renderMode(c.previousMode, fullProgress - c.transitionProgress)>> ELSE <<>>)
         \o (IF c.transitionProgress > 0
             THEN <<renderMode(c.mode, c.transitionProgress)>> ELSE <<>>)
    ELSE <<renderMode(c.mode, fullProgress)>>

\* the calls of renderMode one run of render makes, in order
Draws(c) ==
    IF Blending(c)
    THEN (IF fullProgress - c.transitionProgress > 0
          THEN <<renderMode(c.previousMode, fullProgress - c.transitionProgress)>> ELSE <<>>)
         \o (IF c.transitionProgress > 0
             THEN <<renderMode(c.mode, c.transitionProgress)>> ELSE <<>>)
    ELSE <<renderMode(c.mode, fullProgress)>>

\* every draw algorithm writing the image, not drawSpectrogram alone
drawSpectrogramAnyMode(draws) ==
    IF Len(draws) > 0 THEN size ELSE spectrogramDataRef

\* drawSpectrogram leaves in spectrogramDataRef an image of the canvas's size
drawSpectrogram(draws) ==
    IF \E i \in 1..Len(draws) : draws[i].mode = "spectrogram" THEN size
    ELSE spectrogramDataRef

\* render, as made by the pass whose props and state are c, run when callbacks are the
\* render callbacks still requested and queue the updates dispatched so far
render(c, callbacks, queue) ==
    /\ lastRender' = [ran |-> TRUE, blend |-> Blending(c), draws |-> Draws(c),
                      overlay |-> TRUE]
    /\ spectrogramDataRef' = drawSpectrogram(Draws(c))
    /\ updateQueue' = IF Blending(c) THEN AdvanceProgress(queue, transitionProgress) ELSE queue
    /\ canvasFrameRef' = FreshRenderId(callbacks)
    /\ requestedRender' = callbacks \cup {[id |-> FreshRenderId(callbacks), closure |-> c]}

\* App has rendered with the mode, the size and the audioData it holds: React renders
\* App after each event of the page, before the next one is handled
AppRendered ==
    /\ ~audioDataFresh
    /\ visualizerMode = mode
    /\ canvasSize = size

\* App's setVisualizerMode, from a mode button or a digit key
SetMode ==
    \E m \in RequestedModes :
        /\ AppRendered \/ ~mounted
        /\ m # visualizerMode
        /\ visualizerMode' = m
        /\ UNCHANGED <<beatVars, hookVars, volumeVars, lastSample, canvasSize, audioDataFresh, mounted, mode, size,
                       previousMode, isTransitioning, transitionProgress, updateQueue,
                       effectsPending, canvasFrameRef, requestedRender, spectrogramDataRef,
                       lastRender, framesSincePass, outgoingMode, transitionStart,
                       blendTicks, pixelVars,
                       audioStopped>>

\* App's handleResize finds the container at another size
Resize ==
    \E s \in CanvasSizes :
        /\ AppRendered \/ ~mounted
        /\ s # canvasSize
        /\ canvasSize' = s
        /\ UNCHANGED <<beatVars, hookVars, volumeVars, lastSample, visualizerMode, audioDataFresh, mounted, mode, size,
                       previousMode, isTransitioning, transitionProgress, updateQueue,
                       effectsPending, canvasFrameRef, requestedRender, spectrogramDataRef,
                       lastRender, framesSincePass, outgoingMode, transitionStart,
                       blendTicks, pixelVars,
                       audioStopped>>

\* the hook publishes a new audioData object
NewAudioData ==
    /\ AppRendered \/ ~mounted
    /\ ~audioDataFresh
    /\ audioDataFresh' = TRUE
    /\ UNCHANGED <<beatVars, hookVars, volumeVars, lastSample, visualizerMode, canvasSize, mounted, mode, size,
                   previousMode, isTransitioning, transitionProgress, updateQueue,
                   effectsPending, canvasFrameRef, requestedRender, spectrogramDataRef,
                   lastRender, framesSincePass, outgoingMode, transitionStart,
                       blendTicks, pixelVars,
                       audioStopped>>

\* the render pass in which App first has an audioData: the canvas is mounted with
\* useState(false), useState(mode), useState(0), and all its effects are to run
MountCanvas ==
    /\ ~mounted
    /\ audioDataFresh
    /\ mounted' = TRUE
    /\ audioDataFresh' = FALSE
    /\ mode' = visualizerMode
    /\ size' = canvasSize
    /\ previousMode' = visualizerMode
    /\ isTransitioning' = FALSE
    /\ transitionProgress' = 0
    /\ outgoingMode' = visualizerMode
    /\ effectsPending' = {"mode", "animation", "resize"}
    /\ UNCHANGED <<beatVars, hookVars, volumeVars, lastSample, visualizerMode, canvasSize, updateQueue, canvasFrameRef,
                   requestedRender, spectrogramDataRef, lastRender, framesSincePass,
                   transitionStart, blendTicks, pixelVars,
                       audioStopped>>

\* a later render pass: the canvas takes App's props and the queued updates, and the
\* effects whose dependencies changed are to run
\*   mode effect       [mode, previousMode]
\*   animation effect  [audioData, render], render being made anew when one of
\*                     audioData, mode, previousMode, isTransitioning, transitionProgress changes
\*   resize effect     [width, height]
CommitUpdate ==
    /\ mounted
    /\ effectsPending = {}
    /\ \/ audioDataFresh
       \/ visualizerMode # mode
       \/ canvasSize # size
       \/ updateQueue # NoUpdates
    /\ audioDataFresh' = FALSE
    /\ mode' = visualizerMode
    /\ size' = canvasSize
    /\ previousMode' = NextPreviousMode
    /\ isTransitioning' = NextIsTransitioning
    /\ transitionProgress' = NextTransitionProgress
    /\ updateQueue' = NoUpdates
    /\ effectsPending' =
          (IF visualizerMode # mode \/ NextPreviousMode # previousMode
           THEN {"mode"} ELSE {})
          \cup (IF \/ audioDataFresh
                   \/ visualizerMode # mode
                   \/ NextPreviousMode # previousMode
                   \/ NextIsTransitioning # isTransitioning
                   \/ NextTransitionProgress # transitionProgress
                THEN {"animation"} ELSE {})
          \cup (IF canvasSize # size THEN {"resize"} ELSE {})
    /\ transitionStart' =
          IF updateQueue.previousMode = "none"
          THEN (IF transitionStart = "dropped" THEN "dropped" ELSE "none")
          ELSE IF ~NextIsTransitioning THEN "dropped"
          ELSE IF transitionStart = "override dispatched" THEN "override started"
          ELSE "started"
    /\ UNCHANGED <<beatVars, hookVars, volumeVars, lastSample, visualizerMode, canvasSize, mounted, canvasFrameRef,
                   requestedRender, spectrogramDataRef, lastRender, framesSincePass,
                   outgoingMode, blendTicks, pixelVars,
                       audioStopped>>

\* the effects of the latest commit run, in the order the component declares them, after
\* the cleanup of the animation effect's previous run
\*   mode effect: if (mode !== previousMode) start a transition
\*   animation effect: render()  (audioData is never null here)
\*   resize effect: sets the canvas size and clears it
FlushEffects ==
    LET callbacks == IF "animation" \in effectsPending
                     THEN CancelRender(requestedRender) ELSE requestedRender
        starts == "mode" \in effectsPending /\ mode # previousMode
        queue == IF starts THEN StartTransition(updateQueue, mode) ELSE updateQueue
    IN  /\ effectsPending # {}
        /\ effectsPending' = {}
        /\ framesSincePass' = 0
        /\ blendTicks' = (IF starts THEN 0 ELSE blendTicks)
                         + (IF "animation" \in effectsPending /\ Blending(Closure) THEN 1 ELSE 0)
        /\ outgoingMode' = IF starts THEN previousMode ELSE outgoingMode
        /\ transitionStart' =
              IF ~starts THEN transitionStart
              ELSE IF Blending(Closure) THEN "override dispatched"
              ELSE "dispatched"
        /\ IF "animation" \in effectsPending
           THEN render(Closure, callbacks, queue)
           ELSE /\ updateQueue' = queue
                /\ requestedRender' = callbacks
                /\ UNCHANGED <<canvasFrameRef, spectrogramDataRef, lastRender>>
        /\ UNCHANGED <<beatVars, hookVars, volumeVars, lastSample, visualizerMode, canvasSize, audioDataFresh, mounted,
                       mode, size, previousMode, isTransitioning, transitionProgress,
                       pixelVars,
                       audioStopped>>

\* React has a render pass or effects to run
Busy ==
    \/ effectsPending # {}
    \/ updateQueue # NoUpdates
    \/ audioDataFresh
    \/ visualizerMode # mode
    \/ canvasSize # size

\* the browser runs a requested render callback; React runs its passes and effects
\* between two frames, but for MaxFramesPerPass frames that come while it is busy
RenderFrameCallback ==
    \E f \in requestedRender :
        /\ Busy => framesSincePass < MaxFramesPerPass
        /\ framesSincePass' = IF Busy THEN framesSincePass + 1 ELSE framesSincePass
        /\ blendTicks' = IF Blending(f.closure) THEN blendTicks + 1 ELSE blendTicks
        /\ render(f.closure, requestedRender \ {f}, updateQueue)
        /\ UNCHANGED <<beatVars, hookVars, volumeVars, lastSample, visualizerMode, canvasSize, audioDataFresh, mounted,
                       mode, size, previousMode, isTransitioning, transitionProgress,
                       effectsPending, outgoingMode, transitionStart, pixelVars,
                       audioStopped>>

\* stopAudio, or the 'ended' listener, as the canvas sees it: the hook sets isPlaying to
\* false and keeps its audioData, so App renders the canvas again with the same props
AudioStops ==
    /\ mounted
    /\ AppRendered
    /\ ~audioStopped
    /\ audioStopped' = TRUE
    /\ UNCHANGED <<beatVars, hookVars, volumeVars, lastSample, visualizerMode, canvasSize, audioDataFresh, mounted,
                   mode, size, previousMode, isTransitioning, transitionProgress, updateQueue,
                   effectsPending, canvasFrameRef, requestedRender, spectrogramDataRef,
                   lastRender, framesSincePass, outgoingMode, transitionStart, blendTicks,
                   pixelVars>>

\* togglePlayback or startMicrophone after a stop, as the canvas sees it: the hook sets
\* isPlaying to true; the audioData its updateAudioData publishes is NewAudioData's
AudioResumes ==
    /\ AppRendered
    /\ audioStopped
    /\ audioStopped' = FALSE
    /\ UNCHANGED <<beatVars, hookVars, volumeVars, lastSample, visualizerMode, canvasSize, audioDataFresh, mounted,
                   mode, size, previousMode, isTransitioning, transitionProgress, updateQueue,
                   effectsPending, canvasFrameRef, requestedRender, spectrogramDataRef,
                   lastRender, framesSincePass, outgoingMode, transitionStart, blendTicks,
                   pixelVars>>

\* the browser runs a requested render callback while the drawing surface is not
\* available: canvasRef.current is null or getContext('2d') returns null, and render
\* returns before any drawing, any state update and its requestAnimationFrame(render)
RenderSurfaceUnavailable ==
    \E f \in requestedRender :
        /\ Busy => framesSincePass < MaxFramesPerPass
        /\ framesSincePass' = IF Busy THEN framesSincePass + 1 ELSE framesSincePass
        /\ requestedRender' = requestedRender \ {f}
        /\ lastRender' = NoRender
        /\ UNCHANGED <<beatVars, hookVars, volumeVars, lastSample, visualizerMode, canvasSize, audioDataFresh, mounted,
                       mode, size, previousMode, isTransitioning, transitionProgress, updateQueue,
                       effectsPending, canvasFrameRef, spectrogramDataRef, outgoingMode,
                       transitionStart, blendTicks, pixelVars, audioStopped>>

(***************************************************************************)
(* drawSpectrogram, pixel by pixel.                                        *)
(*                                                                         *)
(* An ImageData is its width, its height and its data, one <<r, g, b, a>>  *)
(* for each pixel, row after row.  The canvas model above keeps the size   *)
(* of the stored image only; here the calls of drawSpectrogram are         *)
(* followed on small canvases, with the canvas resized between calls.      *)
(***************************************************************************)
\* the calls of drawSpectrogram followed
MaxAdvances == 3

\* the sizes of the canvas, <<width, height>>
ImageSizes == {<<3, 2>>, <<2, 3>>}

\* the frequencyData of a call: the bytes base, base + step, ... of a length
FrameLengths == {2, 8}

FrameBases == {0, 43}

FrameSteps == {0, 85}

Ramp(length, base, step) == [i \in 1..length |-> (base + (i - 1) * step) % (byteMax + 1)]

FrequencyFrames ==
    {Ramp(l, b, s) : l \in FrameLengths, b \in FrameBases, s \in FrameSteps}

NoAdvance == [before |-> <<>>, frame |-> <<>>, canvas |-> <<0, 0>>, put |-> FALSE, count |-> 0]

SpectrogramInit ==
    /\ spectrogramImage = <<>>
    /\ lastAdvance = NoAdvance

\* ctx.createImageData(w, h): every byte 0
createImageData(w, h) ==
    [width |-> w, height |-> h, data |-> [i \in 1..(w * h) |-> <<0, 0, 0, 0>>]]

\* imageData.data[index .. index + 3] for index = 4 * pixel: a read past the end of the
\* data gives undefined, which the Uint8ClampedArray written to stores as 0
ReadPixel(image, pixel) ==
    IF pixel < Len(image.data) THEN image.data[pixel + 1] ELSE <<0, 0, 0, 0>>

\* Math.min(frequencyData.length / 2, canvasHeight) > y
InFrequencyBins(y, frequencyData, canvasHeight) ==
    2 * y < Len(frequencyData) /\ y < canvasHeight

\* Math.floor((y / frequencyBins) * frequencyData.length); the doubles give the exact floor
frequencyIndex(y, frequencyData, canvasHeight) ==
    LET twiceBins == IF Len(frequencyData) <= 2 * canvasHeight
                     THEN Len(frequencyData) ELSE 2 * canvasHeight
    IN  (2 * y * Len(frequencyData)) \div twiceBins

\* the bytes for which the double (1 - byte / 255) * 255 falls just below 255 - byte
BlueOneLess ==
    {43, 59, 74, 75, 90, 91, 106, 107, 122, 123, 132, 133, 140, 141, 148, 149, 156, 157,
     164, 165, 172, 173, 180, 181, 188, 189, 196, 197, 198, 204, 205, 206, 212, 213, 214,
     220, 221, 222, 228, 229, 230, 236, 237, 238, 244, 245, 246, 252, 253, 254}

\* intensity = byte / 255; r = floor(intensity * 255), g = floor(intensity * 128),
\* b = floor((1 - intensity) * 255), alpha 255, as the doubles give them
IntensityColour(byte) ==
    <<byte, (byte * 128) \div byteMax,
      IF byte \in BlueOneLess THEN byteMax - 1 - byte ELSE byteMax - byte, byteMax>>

\* the image the Ready branch builds from the stored one: each pixel takes the pixel one
\* to its right at the indices the canvas's width gives, and the last column the colours
\* of the frequency bins
ShiftAndAppend(imageData, frequencyData, canvasWidth, canvasHeight) ==
    [width |-> canvasWidth, height |-> canvasHeight,
     data |-> [i \in 1..(canvasWidth * canvasHeight) |->
        LET y == (i - 1) \div canvasWidth
            x == (i - 1) % canvasWidth
        IN  IF x < canvasWidth - 1 THEN ReadPixel(imageData, y * canvasWidth + x + 1)
            ELSE IF InFrequencyBins(y, frequencyData, canvasHeight)
                 THEN IntensityColour(
                          frequencyData[frequencyIndex(y, frequencyData, canvasHeight) + 1])
                 ELSE <<0, 0, 0, 0>>]]

\* the initialising branch: createImageData, then alpha 255 for every pixel
OpaqueBlack(canvasWidth, canvasHeight) ==
    [width |-> canvasWidth, height |-> canvasHeight,
     data |-> [i \in 1..(canvasWidth * canvasHeight) |-> <<0, 0, 0, byteMax>>]]

\* drawSpectrogram that draws a first column in the call that allocates
drawSpectrogramEager(stored, frequencyData, canvasWidth, canvasHeight) ==
    IF stored # <<>>
    THEN [image |-> ShiftAndAppend(stored, frequencyData, canvasWidth, canvasHeight),
          put |-> TRUE]
    ELSE [image |-> ShiftAndAppend(OpaqueBlack(canvasWidth, canvasHeight), frequencyData,
                                   canvasWidth, canvasHeight),
          put |-> TRUE]

\* drawSpectrogram copying the stored image without the shift
drawSpectrogramUnshifted(stored, frequencyData, canvasWidth, canvasHeight) ==
    IF stored # <<>>
    THEN [image |->
             [width |-> canvasWidth, height |-> canvasHeight,
              data |-> [i \in 1..(canvasWidth * canvasHeight) |->
                 LET y == (i - 1) \div canvasWidth
                     x == (i - 1) % canvasWidth
                 IN  IF x < canvasWidth - 1 THEN ReadPixel(stored, y * canvasWidth + x)
                     ELSE IF InFrequencyBins(y, frequencyData, canvasHeight)
                          THEN IntensityColour(
                                  frequencyData[frequencyIndex(y, frequencyData,
                                                               canvasHeight) + 1])
                          ELSE <<0, 0, 0, 0>>]],
          put |-> TRUE]
    ELSE [image |-> OpaqueBlack(canvasWidth, canvasHeight), put |-> FALSE]

\* drawSpectrogram(ctx, frequencyData, canvasWidth, canvasHeight) with stored in
\* spectrogramDataRef.current: the image it stores, and whether it puts it on the canvas
drawSpectrogramPixels(stored, frequencyData, canvasWidth, canvasHeight) ==
    IF stored # <<>>
    THEN [image |-> ShiftAndAppend(stored, frequencyData, canvasWidth, canvasHeight),
          put |-> TRUE]
    ELSE [image |-> OpaqueBlack(canvasWidth, canvasHeight), put |-> FALSE]

\* a render tick in spectrogram mode: renderMode calls drawSpectrogram with the canvas's
\* width and height
SpectrogramTick ==
    \E frequencyData \in FrequencyFrames :
        LET drawn == drawSpectrogramPixels(spectrogramImage, frequencyData, size[1], size[2])
        IN  /\ lastAdvance.count < MaxAdvances
            /\ spectrogramImage' = drawn.image
            /\ spectrogramDataRef' = <<drawn.image.width, drawn.image.height>>
            /\ lastAdvance' = [before |-> spectrogramImage, frame |-> frequencyData,
                               canvas |-> size, put |-> drawn.put,
                               count |-> lastAdvance.count + 1]
            /\ UNCHANGED <<beatVars, hookVars, volumeVars, lastSample, visualizerMode, canvasSize, audioDataFresh,
                           mounted, mode, size, previousMode, isTransitioning,
                           transitionProgress, updateQueue, effectsPending, canvasFrameRef,
                           requestedRender, lastRender, framesSincePass, outgoingMode,
                           transitionStart, blendTicks, audioStopped>>

\* the canvas takes another size; the resize effect sets and clears the canvas and
\* leaves spectrogramDataRef as it is
CanvasResized ==
    \E s \in ImageSizes :
        /\ s # size
        /\ size' = s
        /\ canvasSize' = s
        /\ UNCHANGED <<beatVars, hookVars, volumeVars, lastSample, visualizerMode, audioDataFresh, mounted, mode,
                       previousMode, isTransitioning, transitionProgress, updateQueue,
                       effectsPending, canvasFrameRef, requestedRender, spectrogramDataRef,
                       lastRender, framesSincePass, outgoingMode, transitionStart,
                       blendTicks, pixelVars,
                       audioStopped>>

(***************************************************************************)
(* The reads of frequencyData by the draw algorithms.                      *)
(*                                                                         *)
(* drawBarSpectrum, drawCircularSpectrum and drawSpectrogram each run a    *)
(* loop  for (i = 0; i < count; i++)  and read                             *)
(* frequencyData[Math.floor((i / count) * frequencyData.length)], with a   *)
(* count that is a quarter or a half of the length, or a cap.  The count   *)
(* is kept as a fraction countNum / countDen.                              *)
(***************************************************************************)
\* Math.min(frequencyData.length / 4, 128)
maxBars == 128

\* Math.min(frequencyData.length / 2, 180)
maxSpokes == 180

\* the algorithms that read frequencyData at a computed index
SampledAlgorithms == {"bars", "circular", "spectrogram"}

\* frequencyData.length: lengths whose quarter or half is not whole, lengths on both
\* sides of the caps, and the analyser's 1024
SampleLengths == {1, 2, 3, 7, 8, 49, 360, 512, 513, 1024}

\* canvasHeight
SampleHeights == {1, 3, 400}

NoSample == [sampled |-> FALSE, algorithm |-> "none", length |-> 0, canvasHeight |-> 0,
             i |-> 0, dataIndex |-> 0]

SampleInit == lastSample = NoSample

\* barCount, barCount again, frequencyBins: the numerator over countDen
countNum(algorithm, length, canvasHeight) ==
    IF algorithm = "bars"
    THEN (IF length <= 4 * maxBars THEN length ELSE 4 * maxBars)
    ELSE IF algorithm = "circular"
    THEN (IF length <= 2 * maxSpokes THEN length ELSE 2 * maxSpokes)
    ELSE (IF length <= 2 * canvasHeight THEN length ELSE 2 * canvasHeight)

\* length / 4 for the bars, length / 2 for the other two
countDen(algorithm) == IF algorithm = "bars" THEN 4 ELSE 2

\* the loop going one step too far: i <= count
InLoopInclusive(i, algorithm, length, canvasHeight) ==
    countDen(algorithm) * i <= countNum(algorithm, length, canvasHeight)

\* i < count
InLoop(i, algorithm, length, canvasHeight) ==
    countDen(algorithm) * i < countNum(algorithm, length, canvasHeight)

\* Math.floor((i / count) * frequencyData.length).  The quotient i / count is rounded to a
\* double before it is multiplied: where i * length / count is a whole number above 0 the
\* product may fall just below it, and the floor is then one less (length 49, i = 1 of the
\* bars gives 3, not 4); otherwise the floor is that of the exact value.
DataIndices(i, algorithm, length, canvasHeight) ==
    LET scaled == countDen(algorithm) * i * length
        count == countNum(algorithm, length, canvasHeight)
        exact == scaled \div count
    IN  IF scaled % count = 0 /\ exact > 0 THEN {exact - 1, exact} ELSE {exact}

\* a draw algorithm is called with a buffer and a canvas and has read nothing yet
SampleStart ==
    \E algorithm \in SampledAlgorithms, length \in SampleLengths, canvasHeight \in SampleHeights :
        lastSample = [NoSample EXCEPT !.algorithm = algorithm, !.length = length,
                                      !.canvasHeight = canvasHeight]

\* the next pass of the draw loop reads frequencyData: i is 0 in the first pass, and
\* i++ has run since any earlier one
SampleTick ==
    LET i == IF lastSample.sampled THEN lastSample.i + 1 ELSE 0
    IN      /\ InLoop(i, lastSample.algorithm, lastSample.length, lastSample.canvasHeight)
            /\ \E dataIndex \in DataIndices(i, lastSample.algorithm, lastSample.length,
                                             lastSample.canvasHeight) :
                  lastSample' = [lastSample EXCEPT !.sampled = TRUE, !.i = i,
                                                   !.dataIndex = dataIndex]
            /\ UNCHANGED <<beatVars, hookVars, volumeVars, visualizerMode, canvasSize,
                           audioDataFresh, mounted, mode, size, previousMode, isTransitioning,
                           transitionProgress, updateQueue, effectsPending, canvasFrameRef,
                           requestedRender, spectrogramDataRef, lastRender, framesSincePass,
                           outgoingMode, transitionStart, blendTicks, pixelVars, audioStopped>>

Init ==
    /\ bufferLength = frequencyBinCount
    /\ BeatInit /\ HookInit /\ CanvasInit /\ SpectrogramInit /\ SampleInit

Next ==
    \/ LoadAudioFile
    \/ LoadSettled
    \/ StartMicrophone
    \/ MicrophoneGranted
    \/ MicrophoneDenied
    \/ togglePlayback
    \/ stopAudio
    \/ Ended
    \/ FrameCallback

\* the hook, driven by the page and by the browser
Spec == Init /\ [][Next]_vars

SpecBeatInit ==
    /\ bufferLength \in BufferLengths
    /\ BeatInit /\ HookInit /\ CanvasInit /\ SpectrogramInit /\ SampleInit

SpecBeatNext == DetectCall

\* detectBeat alone, called on a steady signal that steps once
SpecBeat == SpecBeatInit /\ [][SpecBeatNext]_vars

SpecCanvasNext ==
    \/ SetMode
    \/ Resize
    \/ NewAudioData
    \/ MountCanvas
    \/ CommitUpdate
    \/ FlushEffects
    \/ RenderFrameCallback
    \/ AudioStops
    \/ AudioResumes

\* the canvas, driven by App, by React and by the browser
SpecCanvas == Init /\ [][SpecCanvasNext]_vars

\* the canvas when React does run the render passes and the effects it has to run
SpecCanvasFair == SpecCanvas /\ WF_vars(CommitUpdate) /\ WF_vars(FlushEffects)

SpecSurfaceNext ==
    \/ SpecCanvasNext
    \/ RenderSurfaceUnavailable

\* the canvas when the drawing surface may be unavailable to a frame callback
SpecSurface == Init /\ [][SpecSurfaceNext]_vars

SpecSamplingInit ==
    /\ bufferLength = frequencyBinCount
    /\ BeatInit /\ HookInit /\ CanvasInit /\ SpectrogramInit /\ SampleStart

SpecSamplingNext == SampleTick

\* the draw loops reading buffers of several lengths on canvases of several heights
SpecSampling == SpecSamplingInit /\ [][SpecSamplingNext]_vars

SpecVolumeNext ==
    \/ setVolume
    \/ LoadAudioFile
    \/ LoadSettled
    \/ StartMicrophone
    \/ MicrophoneGranted
    \/ MicrophoneDenied

\* the volume: setVolume and the operations that load a source, in any order
SpecVolume == Init /\ [][SpecVolumeNext]_vars

SpecSpectrogramInit ==
    /\ bufferLength = frequencyBinCount
    /\ BeatInit /\ HookInit /\ SpectrogramInit /\ SampleInit
    /\ \E s \in ImageSizes :
          /\ canvasSize = s
          /\ size = s
    /\ visualizerMode = "spectrogram" /\ mode = "spectrogram" /\ previousMode = "spectrogram"
    /\ audioDataFresh = FALSE /\ mounted = TRUE
    /\ isTransitioning = FALSE /\ transitionProgress = 0
    /\ updateQueue = NoUpdates /\ effectsPending = {}
    /\ canvasFrameRef = 0 /\ requestedRender = {}
    /\ spectrogramDataRef = <<>> /\ lastRender = NoRender
    /\ framesSincePass = 0 /\ outgoingMode = "spectrogram" /\ transitionStart = "none"
    /\ blendTicks = 0 /\ audioStopped = FALSE

SpecSpectrogramNext ==
    \/ SpectrogramTick
    \/ CanvasResized

\* drawSpectrogram alone, called tick after tick on a canvas that is resized
SpecSpectrogram == SpecSpectrogramInit /\ [][SpecSpectrogramNext]_vars

(***************************************************************************)
(* What the claims about detectBeat speak of, said without detectBeat.     *)
(***************************************************************************)
\* the arithmetic mean of the first tenth of a frame built by MkFrame
RawEnergyOf(frame) == IF frame.length >= 10 THEN FromInt(LevelOf(frame)) ELSE NaN

\* e > 1.5 x the arithmetic mean of h, as 2 * Len(h) * e > 3 * (sum of h)
ExceedsOneAndHalfMean(e, h) ==
    LET total == SumOf(h)
    IN  /\ ~IsNaN(e) /\ ~IsNaN(total)
        /\ 2 * Len(h) * e.num * total.den > 3 * total.num * e.den

\* the last n elements of s
LastN(s, n) == SubSeq(s, Len(s) - n + 1, Len(s))

Min(a, b) == IF a <= b THEN a ELSE b

\* the sequence of n copies of x
Copies(n, x) == [i \in 1..n |-> x]

\* the history before the latest call held ten samples, all of level h
TenOf(h) == lastCall.called /\ lastCall.historyBefore = Copies(10, FromInt(h))

LatestGapOk == lastCall.currentTime - lastCall.lastBeatBefore > 200

(***************************************************************************)
(* C1: a detectBeat call returns beatDetected exactly when the frame's raw *)
(* bass energy exceeds 1.5 x the mean of the history after the push, more  *)
(* than 200 ms have passed since lastBeatTimeRef, and the history after    *)
(* the push holds at least 10 samples.                                     *)
(***************************************************************************)
C1_BeatIffThreeConditions ==
    lastCall.called =>
        (lastCall.beatDetected <=>
            /\ ExceedsOneAndHalfMean(RawEnergyOf(lastCall.frame), beatHistoryRef)
            /\ lastCall.currentTime - lastCall.lastBeatBefore > 200
            /\ Len(beatHistoryRef) >= 10)

\* a beat fired, and on another call the energy and the history sufficed
\* but the gap was exactly 200 ms
C1_Witness ==
    /\ lastCall.called
    /\ ~lastCall.beatDetected
    /\ ExceedsOneAndHalfMean(RawEnergyOf(lastCall.frame), beatHistoryRef)
    /\ Len(beatHistoryRef) >= 10
    /\ lastCall.currentTime - lastCall.lastBeatBefore = 200

(***************************************************************************)
(* C2: whatever the page and the browser do to the hook (load, play,       *)
(* pause, stop, microphone, track end, frame callbacks), beatHistoryRef    *)
(* holds between 0 and 20 samples.                                         *)
(***************************************************************************)
C2_HistoryLengthBounded == Len(beatHistoryRef) >= 0 /\ Len(beatHistoryRef) <= 20

\* more than 20 runs of updateAudioData, the loop stopped since: 20 samples are kept
C2_Witness ==
    /\ Len(pushed) > 20
    /\ Len(beatHistoryRef) = 20
    /\ ~isPlaying
    /\ requested = {}

(***************************************************************************)
(* C3: the history is a FIFO of the latest samples: after k calls it holds *)
(* the energies of the last min(k, 20) calls, oldest first.                *)
(***************************************************************************)
C3_HistoryIsLatestTwenty ==
    beatHistoryRef = LastN(pushed, Min(Len(pushed), 20))

\* 21 pushes of which the first differs from the rest: the first is gone
C3_Witness ==
    /\ Len(pushed) = 21
    /\ pushed[1] # pushed[2]
    /\ Len(beatHistoryRef) = 20
    /\ beatHistoryRef[1] = pushed[2]
    /\ beatHistoryRef[20] = pushed[21]

(***************************************************************************)
(* C4: warm-up: a call that leaves fewer than 10 samples in the history    *)
(* never returns beatDetected; the first 9 calls all return false.         *)
(***************************************************************************)
C4_WarmUpSuppression ==
    /\ \A i \in 1..Len(results) : i < 10 => ~results[i]
    /\ (lastCall.called /\ Len(beatHistoryRef) < 10) => ~lastCall.beatDetected

\* the ninth call, a spike of 255 over eight silent samples, late: no beat
C4_Witness ==
    /\ Len(pushed) = 9
    /\ lastCall.historyBefore = Copies(8, FromInt(0))
    /\ lastCall.raw = FromInt(255)
    /\ lastCall.currentTime - lastCall.lastBeatBefore > 200
    /\ ~lastCall.beatDetected

(***************************************************************************)
(* C5: two calls that both return beatDetected are more than 200 ms apart. *)
(* (Time never runs backwards, so it is enough to compare each beat with   *)
(* the latest one before it.)                                              *)
(***************************************************************************)
C5_BeatsMoreThanGapApart ==
    (lastCall.called /\ lastCall.beatDetected /\ lastCall.lastTrueBefore # -1) =>
        lastCall.currentTime - lastCall.lastTrueBefore > 200

\* a spike 200 ms after a beat gave none, and the next call gave the second beat
C5_Witness ==
    /\ lastCall.called
    /\ lastCall.beatDetected
    /\ lastCall.lastTrueBefore # -1
    /\ Len(results) >= 3
    /\ ~results[Len(results) - 1]
    /\ results[Len(results) - 3]

(***************************************************************************)
(* C6: from a fresh hook, when k >= 9 runs of updateAudioData on an        *)
(* all-zero buffer are followed, more than 200 ms after the start, by a    *)
(* run on a buffer whose bass range is all 255 and whose other bytes are   *)
(* 0, that run reports and publishes beatDetected = true, and every run    *)
(* before it reported false.                                               *)
(***************************************************************************)
C6_SilenceThenSpike ==
    LET n == Len(pushed)
    IN  (/\ n >= 10
         /\ \A i \in 1..(n - 1) : pushed[i] = FromInt(0)
         /\ lastCall.frame = MkFrame(bufferLength, 255, 0)
         /\ lastCall.currentTime - StartTime > 200)
        => /\ results[n]
           /\ \A i \in 1..(n - 1) : ~results[i]
           /\ audioData.present
           /\ audioData.beatDetected
           /\ audioData.frame = lastCall.frame

\* the case of the specification: 15 silent runs, then the spike, which fires
C6_Witness ==
    /\ Len(pushed) = 16
    /\ \A i \in 1..15 : pushed[i] = FromInt(0)
    /\ lastCall.frame = MkFrame(frequencyBinCount, 255, 0)
    /\ results[16]
    /\ audioData.beatDetected

(***************************************************************************)
(* C7 as stated: with ten samples all equal to h > 0 in the history and    *)
(* the gap satisfied, a sample s fires whenever s > 1.5 x h and does not   *)
(* fire whenever s < 1.5 x h.                                              *)
(***************************************************************************)
C7_ThresholdAsStated ==
    \A h \in Levels \ {0} :
        (TenOf(h) /\ LatestGapOk) =>
            LET s == LevelOf(lastCall.frame)
            IN  /\ 2 * s > 3 * h => lastCall.beatDetected
                /\ 2 * s < 3 * h => ~lastCall.beatDetected

(***************************************************************************)
(* C7 amended: the mean is taken over the eleven samples, s included, so   *)
(* s fires exactly when s > 1.5 x (10 h + s) / 11, that is 19 s > 30 h;    *)
(* in particular it does not fire whenever s < 1.5 x h.  For h = 10,       *)
(* s = 16 fires and s = 14 does not.                                       *)
(***************************************************************************)
C7_ThresholdOverEleven ==
    \A h \in Levels \ {0} :
        (TenOf(h) /\ LatestGapOk) =>
            LET s == LevelOf(lastCall.frame)
            IN  /\ lastCall.beatDetected <=> 19 * s > 30 * h
                /\ 2 * s < 3 * h => ~lastCall.beatDetected

\* the case of the specification: ten samples of 10, then 16, fires
C7_Witness ==
    /\ TenOf(10)
    /\ LatestGapOk
    /\ LevelOf(lastCall.frame) = 16
    /\ lastCall.beatDetected

C9_TransitionFromOutgoingMode ==
    /\ transitionStart = "started"
          => /\ isTransitioning
             /\ transitionProgress = 0
             /\ previousMode = outgoingMode
    /\ lastRender.blend
          => /\ lastRender.draws[1].mode = outgoingMode
             /\ Len(lastRender.draws) = 2
                   => lastRender.draws[2].mode # lastRender.draws[1].mode

(***************************************************************************)
(* C10: a mode change that comes while a blend is running overrides it:    *)
(* the pass that takes the new start has isTransitioning true and          *)
(* transitionProgress 0, with the newest mode as the target; and once      *)
(* React has nothing left to run and no blend is running, the latest run   *)
(* of render has drawn the mode requested last, alone, at full opacity.    *)
(***************************************************************************)
C10_OverrideRestartsFromZero ==
    /\ transitionStart = "override started"
          => /\ isTransitioning
             /\ transitionProgress = 0
             /\ previousMode = mode \/ visualizerMode # mode
    /\ (mounted /\ ~Busy /\ ~Blending(Closure))
          => lastRender.draws = <<renderMode(visualizerMode, fullProgress)>>

StartDispatched == transitionStart \in {"dispatched", "override dispatched"}

\* the start the mode effect dispatched last is one React applied, or is to apply, under a
\* setIsTransitioning(false) that the updater of an earlier blend makes in the render
\* phase of the same pass: isTransitioning comes out false and the transition is not shown
StartDropped ==
    \/ transitionStart = "dropped"
    \/ updateQueue.renderPhase /\ updateQueue.isTransitioning = "true"

RenderRuns == canvasFrameRef' # canvasFrameRef

\* the props and state the render that has just run was made with: it requested a
\* callback of itself under the id it stored
TickClosure == (CHOOSE f \in requestedRender : f.id = canvasFrameRef).closure

\* C13: a run of render invokes two draw algorithms only if the state it reads has a
\* transition active (isTransitioning and transitionProgress < 1); a run whose state has
\* none invokes exactly one, that of its current mode, at opacity 1.  The state a run
\* reads is the state on display whenever React has no pass and no effect to run.
C13_TwoDrawsOnlyWhileBlending ==
    /\ []((mounted /\ ~Busy) => \A f \in requestedRender : f.closure = Closure)
    /\ [][RenderRuns =>
            /\ Len(lastRender'.draws) \in {1, 2}
            /\ Len(lastRender'.draws) = 2 =>
                  (TickClosure'.isTransitioning /\ TickClosure'.transitionProgress < fullProgress)
            /\ ~(TickClosure'.isTransitioning /\ TickClosure'.transitionProgress < fullProgress)
                  => lastRender'.draws = <<renderMode(TickClosure'.mode, fullProgress)>>]_vars

\* C13 witness: the latest run of render blended two draws, half way through a transition
\* to the spectrogram
C13_Witness ==
    /\ mounted /\ lastRender.ran
    /\ Len(lastRender.draws) = 2
    /\ TickClosure.isTransitioning /\ TickClosure.transitionProgress = 50
    /\ TickClosure.mode = "spectrogram"
    /\ lastRender.draws[2] = renderMode("spectrogram", 50)
\* the pixel of an image at column x and row y, both counted from 0
PixelAt(image, x, y) == image.data[y * image.width + x + 1]

\* the latest call of drawSpectrogram found a stored image of the canvas's size
AdvancedReady ==
    /\ lastAdvance.count > 0
    /\ lastAdvance.before # <<>>
    /\ <<lastAdvance.before.width, lastAdvance.before.height>> = lastAdvance.canvas

\* the latest call of drawSpectrogram found no stored image
AdvancedUninitialized == lastAdvance.count > 0 /\ lastAdvance.before = <<>>

\* C14: a call of drawSpectrogram that finds a stored image of the canvas's size stores
\* and shows an image of that size in which, for every row y and every x in 0..width-2,
\* the pixel at (x, y) is the pixel that was at (x+1, y), and in which column width-1
\* holds, in each row y below min(length / 2, height) of the frequency frame, the opaque
\* colour (r, g, b) = (v, floor(128 v / 255), 255 - v or 254 - v) of the byte v at index
\* floor(y * length / min(length / 2, height)), and transparent black in the rows below.
C14_ShiftLeftAppendRight ==
    AdvancedReady =>
        LET w == lastAdvance.canvas[1]
            h == lastAdvance.canvas[2]
            f == lastAdvance.frame
            n == Len(f)
        IN  /\ lastAdvance.put
            /\ spectrogramImage.width = w /\ spectrogramImage.height = h
            /\ Len(spectrogramImage.data) = w * h
            /\ \A y \in 0..(h - 1) : \A x \in 0..(w - 2) :
                  PixelAt(spectrogramImage, x, y) = PixelAt(lastAdvance.before, x + 1, y)
            /\ \A y \in 0..(h - 1) :
                  LET p == PixelAt(spectrogramImage, w - 1, y)
                  IN  IF 2 * y < n /\ y < h
                      THEN \E v \in 0..255 :
                              /\ v = f[(IF n <= 2 * h THEN 2 * y ELSE (y * n) \div h) + 1]
                              /\ p[1] = v
                              /\ 255 * p[2] <= 128 * v /\ 128 * v < 255 * (p[2] + 1)
                              /\ p[3] \in {255 - v, 254 - v}
                              /\ p[4] = 255
                      ELSE p = <<0, 0, 0, 0>>

\* C14 witness: two columns have been appended on a canvas 3 wide and 2 high; the older
\* one now stands in the middle column and the newer one, of another frame, on the right
C14_Witness ==
    /\ AdvancedReady
    /\ lastAdvance.count = 3
    /\ lastAdvance.canvas = <<3, 2>>
    /\ lastAdvance.frame = Ramp(8, 43, 85)
    /\ PixelAt(spectrogramImage, 0, 0) = <<0, 0, 0, 255>>
    /\ PixelAt(spectrogramImage, 1, 0) = <<0, 0, 255, 255>>
    /\ PixelAt(spectrogramImage, 2, 0) = <<43, 21, 211, 255>>
    /\ PixelAt(spectrogramImage, 2, 1) = <<127, 63, 128, 255>>

\* C15: a call of drawSpectrogram that finds no stored image stores an image of the
\* canvas's width and height in which every pixel is (0, 0, 0, 255), whatever the frequency
\* frame, and puts nothing on the canvas; the accumulator is then Ready, and a call that
\* finds a stored image is one that shows the image it builds.
C15_FirstAdvanceAllocatesOpaqueBlack ==
    /\ AdvancedUninitialized =>
          /\ spectrogramImage # <<>>
          /\ spectrogramDataRef = lastAdvance.canvas
          /\ spectrogramImage.width = lastAdvance.canvas[1]
          /\ spectrogramImage.height = lastAdvance.canvas[2]
          /\ Len(spectrogramImage.data) = lastAdvance.canvas[1] * lastAdvance.canvas[2]
          /\ \A i \in 1..Len(spectrogramImage.data) :
                spectrogramImage.data[i] = <<0, 0, 0, 255>>
          /\ ~lastAdvance.put
    /\ lastAdvance.count > 0 => (lastAdvance.put <=> lastAdvance.before # <<>>)
    /\ lastAdvance.count > 1 => lastAdvance.before # <<>>

\* C15 witness: the first call, on a canvas 2 wide and 3 high with a frame of bytes that
\* are not 0, has left six opaque black pixels and shown nothing
C15_Witness ==
    /\ AdvancedUninitialized
    /\ lastAdvance.count = 1
    /\ lastAdvance.canvas = <<2, 3>>
    /\ lastAdvance.frame = Ramp(8, 43, 85)
    /\ Len(spectrogramImage.data) = 6
    /\ ~lastAdvance.put
\* the render that runs in this step calls drawSpectrogram
SpectrogramDrawn ==
    /\ RenderRuns
    /\ \E i \in 1..Len(lastRender'.draws) : lastRender'.draws[i].mode = "spectrogram"

\* C16: whenever the canvas's width or height changes, the accumulator returns to
\* Uninitialized and the old buffer is discarded: once the effects of the pass that took
\* the new size have run, spectrogramDataRef holds no image or one of the canvas's size.
C16_ResizeResetsAccumulator ==
    (mounted /\ effectsPending = {}) =>
        (spectrogramDataRef = <<>> \/ spectrogramDataRef = size)

\* C17: a call of drawSpectrogram never indexes a buffer sized for old dimensions:
\* whenever a run of render calls drawSpectrogram and spectrogramDataRef holds an image,
\* that image's width and height are those of the canvas.
C17_NeverIndexesStaleBuffer ==
    [][(SpectrogramDrawn /\ spectrogramDataRef # <<>>) => spectrogramDataRef = size]_vars
\* C18: while audio is active (isPlaying true since togglePlayback started the element or
\* startMicrophone got the stream, with no pause, stop or end of track since), the analysis
\* keeps running: a run of updateAudioData is requested for the next display refresh.
C18_AnalysisLoopRunsWhilePlaying == isPlaying => requested # {}
\* C19: once the audio has been stopped or its track has ended, no further tick runs
\* until audio is started again: no step taken while the audio is stopped is a run of
\* render.
C19_NoTickAfterStop == [][audioStopped => ~RenderRuns]_vars

\* C20: when the audio signal disappears the spectrogram buffer is released: while the
\* audio is stopped spectrogramDataRef holds no image, so that the first advance after the
\* audio resumes finds none.
C20_BufferReleasedOnStop == audioStopped => spectrogramDataRef = <<>>

\* C21: a call of detectBeat on a malformed buffer (one shorter than 10 entries, whose
\* first tenth is empty) skips the update: beatHistoryRef and lastBeatTimeRef are left as
\* they were.
C21_MalformedBufferSkipped ==
    (lastCall.called /\ Length(lastCall.frame) < 10) =>
        /\ beatHistoryRef = lastCall.historyBefore
        /\ lastBeatTimeRef = lastCall.lastBeatBefore

\* C22: a render tick that finds the drawing surface unavailable draws nothing, leaves the
\* transition progress and the spectrogram buffer as they were, and rendering is attempted
\* again: a render callback is requested after it.
C22_UnavailableSurfaceRetried ==
    [][RenderSurfaceUnavailable =>
          /\ UNCHANGED <<updateQueue, transitionProgress, spectrogramDataRef>>
          /\ requestedRender' # {}]_vars

\* C23: a run of render in which spectrogram is drawn, a run of a transition into or out
\* of spectrogram included, calls drawSpectrogram once: the accumulator advances by one
\* column in that tick.
C23_OneAdvancePerTick ==
    lastRender.ran =>
        Cardinality({i \in 1..Len(lastRender.draws) :
                        lastRender.draws[i].mode = "spectrogram"}) <= 1

\* C24: a run of render that draws no spectrogram paints the fade overlay over the canvas
\* before the mode draws, and a run that renders spectrogram mode does not paint it.
C24_OverlayOnlyOutsideSpectrogram ==
    lastRender.ran =>
        /\ (\A i \in 1..Len(lastRender.draws) : lastRender.draws[i].mode # "spectrogram")
              => lastRender.overlay
        /\ lastRender.draws = <<renderMode("spectrogram", fullProgress)>>
              => ~lastRender.overlay

\* C25: whatever the order of loadAudioFile, startMicrophone, togglePlayback, stopAudio
\* and frame callbacks, at most one callback of updateAudioData is requested at a time,
\* and it is the one animationFrameRef holds.
C25_OneAnalysisCallbackPending ==
    /\ Cardinality(requested) <= 1
    /\ \A f \in requested : f.id = animationFrameRef

\* C26: lastBeatTimeRef changes only when a beat fires: a call of detectBeat that returns
\* false leaves it as it was, a call that returns true sets it to that call's Date.now(),
\* and no other operation of the hook (stopAudio, togglePlayback, a start, a load) writes it.
C26_BeatTimeWrittenOnlyByBeats ==
    [][/\ lastCall'.called =>
             lastBeatTimeRef' = IF lastCall'.beatDetected THEN lastCall'.currentTime
                                ELSE lastCall'.lastBeatBefore
       /\ lastBeatTimeRef' # lastBeatTimeRef =>
             /\ lastCall' # lastCall
             /\ lastCall'.beatDetected
             /\ lastCall'.lastBeatBefore = lastBeatTimeRef]_vars

\* a beat has set lastBeatTimeRef, a later call without a beat has left it there, and the
\* audio has been stopped since
C26_Witness ==
    /\ lastCall.called /\ ~lastCall.beatDetected
    /\ lastTrueAt > 0
    /\ lastBeatTimeRef = lastTrueAt
    /\ lastBeatTimeRef = lastCall.lastBeatBefore
    /\ ~isPlaying

\* C27: a run of render that draws bars or waveform and no spectrogram leaves
\* spectrogramDataRef, beatHistoryRef, lastBeatTimeRef and the committed transition
\* state as they were, and dispatches no update unless it is a blending run advancing
\* the progress or comes with the mode effect; spectrogramDataRef holds no image until a
\* run draws spectrogram.
C27_OtherModesTouchNoState ==
    [][/\ (RenderRuns /\ ~SpectrogramDrawn) =>
             /\ UNCHANGED <<spectrogramDataRef, beatHistoryRef, lastBeatTimeRef>>
             /\ UNCHANGED <<isTransitioning, transitionProgress, previousMode>>
             /\ (effectsPending' = effectsPending /\ ~lastRender'.blend)
                   => UNCHANGED updateQueue
       /\ (spectrogramDataRef = <<>> /\ spectrogramDataRef' # <<>>) => SpectrogramDrawn]_vars

\* a blending run has drawn waveform twice and left the image a spectrogram run had stored
C27_Witness ==
    /\ lastRender.ran /\ lastRender.blend
    /\ Len(lastRender.draws) = 2
    /\ lastRender.draws[1].mode = "waveform" /\ lastRender.draws[2].mode = "waveform"
    /\ spectrogramDataRef = <<800, 400>>
    /\ size = <<400, 300>>

\* C28: whatever the order of new audioData, mode changes, progress updates, resizes and
\* frame callbacks, at most one callback of render is requested at a time, and it is the
\* one animationFrameRef holds: a render made anew is started only after the frame the
\* previous one requested has been cancelled.
C28_OneRenderCallbackPending ==
    /\ Cardinality(requestedRender) <= 1
    /\ \A f \in requestedRender : f.id = canvasFrameRef

\* the animation effect has run again in the middle of a transition, with a frame of the
\* previous render requested, and one callback is requested, made by the latest pass
C28_Witness ==
    /\ mounted /\ effectsPending = {}
    /\ isTransitioning /\ transitionProgress = 50
    /\ Cardinality(requestedRender) = 1
    /\ \A f \in requestedRender : f.closure = Closure /\ f.id = canvasFrameRef

\* C29: a constant signal never produces a beat: as long as every call of detectBeat has
\* had the same raw bass energy (silence included), every call has returned
\* beatDetected = false, however long the history and whatever the time between calls.
C29_ConstantSignalNeverBeats ==
    (\A i \in 1..Len(pushed) : pushed[i] = pushed[1]) =>
        \A i \in 1..Len(results) : ~results[i]

\* more calls than the history holds, all with the same bass energy above 0, and none has
\* returned a beat
C29_Witness ==
    /\ Len(pushed) > historyCap
    /\ \A i \in 1..Len(pushed) : pushed[i] = pushed[1]
    /\ Greater(pushed[1], [num |-> 0, den |-> 1])
    /\ Len(beatHistoryRef) = historyCap
    /\ \A i \in 1..Len(results) : ~results[i]

\* C30: after any sequence of setVolume calls and loads of a source, state.volume is in
\* [0, 1] and, whenever the gain node exists, its gain value equals state.volume.
C30_GainMatchesVolume ==
    /\ volume >= 0 /\ volume <= 100
    /\ gainNodeRef # -1 => gainNodeRef = volume

\* C31: every index at which the bars, the circular spectrum and the spectrogram read
\* frequencyData lies in 0 .. length - 1, for every length of at least 1 and every canvas
\* height of at least 1.
C31_SamplingInsideBuffer ==
    lastSample.sampled =>
        /\ lastSample.dataIndex >= 0
        /\ lastSample.dataIndex < lastSample.length

\* the last bar of a 1024-entry buffer (barCount 128, i = 127) reads index 1016
C31_Witness ==
    /\ lastSample.sampled
    /\ lastSample.algorithm = "bars" /\ lastSample.length = 1024
    /\ lastSample.i = maxBars - 1
    /\ lastSample.dataIndex = 1016
====
